---- MODULE Spec2Model ----
(***************************************************************************)
(* Build-job lifecycle of leeroyci: the GitHub webhook handler             *)
(* (callbacks/github.go), the Job record and its derived predicates        *)
(* (database/job.go), the bounded build queue between them, the worker     *)
(* pool that drains it, and the dispatch of a finished Job's outcome to    *)
(* the chat sink (notification/hipchat.go) and the pull-request sink       *)
(* (integrations/github/commentPR.go).                                     *)
(*                                                                         *)
(* jobs is the jobs table.  A method of Job works on the *Job its caller   *)
(* holds in memory (the worker's since CreateJob, the operator's since     *)
(* GetJob): it assigns one field of that struct and db.Save writes the     *)
(* whole struct over the row, with no lock.  CommandLogs live in one table *)
(* read by JobID, as GetCommandLogsForJob(j.ID) reads them.  A reading of    *)
(* time.Now() is any time after the zero time; the code compares a         *)
(* timestamp with the zero time only, and no order between two readings    *)
(* is assumed.                                                             *)
(***************************************************************************)
EXTENDS Integers, Sequences, FiniteSets, TLC

VARIABLES
    jobs,         \* the jobs table: a sequence of Job records, index = ID
    commandLogs,  \* the command_logs table: per JobID, its rows in insertion order
    queue,        \* the build queue: chan logging.Job
    hpc,          \* per webhook delivery: position of its parseGitHub call
    hcb,          \* per webhook delivery: the unmarshalled GitHubCallback
    wpc,          \* per worker: position in the worker loop
    wjob,         \* per worker: ID of the Job it owns (0 = none)
    wmem,         \* per worker: the *Job it holds in memory
    omem,         \* the *Job the operator has loaded to cancel it
    cancels,      \* number of Cancel() calls the operator has made
    wreq,         \* per worker: the request it dequeued
    wcmd,         \* per worker: index of the next command of the stage
    wstop,        \* per worker: it has observed the cancelled flag
    enqueued,     \* history: deliveries in the order their request was sent
    dequeued,     \* history: deliveries in the order a worker received them
    dispatch,     \* per JobID: how far the notification of its outcome got
    registry      \* the repositories table: the commands now configured

vars == <<jobs, commandLogs, queue, hpc, hcb, wpc, wjob, wmem, wreq, wcmd,
          wstop, omem, cancels, enqueued, dequeued, dispatch, registry>>

---------------------------------------------------------------------------
(* Bounds of the model *)

NumDeliveries == 2
NumAdmissions == 3
NumWorkers == 2
QueueCap == 2
MaxApiLogs == 2
MaxClock == 1
MaxCancels == 1

(* the webhook deliveries of the run *)
Deliveries == DOMAIN hpc
Workers == 1..NumWorkers

---------------------------------------------------------------------------
(* Job statuses, database/job.go:10-14 *)

JobStatusSuccess == "success"
JobStatusError == "error"
JobStatusPending == "pending"

(* time.Time{}: the zero time, "unset" *)
ZeroTime == 0

(* t.After(u) *)
After(t, u) == t > u

(* time.Now(): the readings a call can return, each after the zero time; *)
(* the methods of Job compare a timestamp with the zero time only        *)
TimeNow == 1..MaxClock

CommandKindBuild == "build"
CommandKindDeploy == "deploy"

---------------------------------------------------------------------------
(* Repository configuration: one registered repository, whose ordered     *)
(* command lists are keyed by branch and kind.                            *)

RegisteredURL == "github.com/o/repo"
UnknownURL == "github.com/o/other"

BranchMaster == <<"master">>
BranchDev == <<"dev">>
BranchFeature == <<"feature">>
Branches == {BranchMaster, BranchDev, BranchFeature}

(* the configuration as first stored, and after an edit that adds a      *)
(* deploy command to the branch that had build commands only              *)
ConfigInitial == "initial"
ConfigEdited == "edited"

(* Repository.GetCommands(branch, kind), on the Repository row a Job is   *)
(* loaded with (Preload("Repository") by RepositoryID): the commands      *)
(* configured now                                                         *)
GetCommands(branch, kind) ==
    IF branch = BranchMaster
    THEN IF kind = CommandKindBuild THEN <<"A", "B", "C">> ELSE <<"D">>
    ELSE IF branch = BranchDev
    THEN IF kind = CommandKindBuild THEN <<"A">>
         ELSE IF registry = ConfigEdited THEN <<"D">> ELSE <<>>
    ELSE <<>>

(* database.RepositoryForURL(url): does a configured repository match *)
RepositoryForURL(url) == url = RegisteredURL

---------------------------------------------------------------------------
(* database/job.go: the Job record and its methods *)

(* CreateJob: the record as db.Save first stores it; the ID is the row's  *)
NewJob(id, branch, commit, origin) ==
    [ID |-> id, Cancelled |-> FALSE,
     TasksStarted |-> ZeroTime, TasksFinished |-> ZeroTime,
     DeployFinished |-> ZeroTime,
     Branch |-> branch, Commit |-> commit, Origin |-> origin]

(* no *Job held *)
NoJob == NewJob(0, <<>>, "", 0)

(* GetJob(id): a struct filled from the row *)
GetJob(id) == jobs[id]

(* db.Save(j): every field of the struct is written over the row j.ID *)
Save(rows, j) == [rows EXCEPT ![j.ID] = j]

(* GetCommandLogsForJob(id): the rows whose job_id is id *)
GetCommandLogsForJob(id) ==
    IF id \in DOMAIN commandLogs THEN commandLogs[id] ELSE <<>>

(* append a CommandLog row for Job id *)
CreateCommandLog(logs, id, kind, name, passed) ==
    [logs EXCEPT ![id] = Append(@, [JobID |-> id, Kind |-> kind,
                                    Name |-> name, Passed |-> passed])]

(* CommandLog.Passed() *)
CommandLogPassed(c) == c.Passed

PassedBuildOnly(j) ==
    LET logs == GetCommandLogsForJob(j.ID)
    IN \A i \in DOMAIN logs :
          logs[i].Kind = CommandKindBuild => CommandLogPassed(logs[i])

(* Job.Passed *)
Passed(j) ==
    LET logs == GetCommandLogsForJob(j.ID)
    IN \A i \in DOMAIN logs : CommandLogPassed(logs[i])

(* Job.Status *)
Status(j) ==
    IF After(j.TasksFinished, ZeroTime)
    THEN IF Passed(j) THEN JobStatusSuccess ELSE JobStatusError
    ELSE JobStatusPending

TasksDoneWrongField(j, now) == [j EXCEPT !.TasksStarted = now]

(* Job.TasksDone *)
TasksDone(j, now) == [j EXCEPT !.TasksFinished = now]

(* Job.DeployDone *)
DeployDone(j, now) == [j EXCEPT !.DeployFinished = now]

(* Job.ShouldBuild *)
ShouldBuild(j) ==
    IF Len(GetCommands(j.Branch, CommandKindBuild)) > 0
    THEN Passed(j)
    ELSE FALSE

ShouldDeployNoPassed(j) == Len(GetCommands(j.Branch, CommandKindDeploy)) > 0

(* Job.ShouldDeploy *)
ShouldDeploy(j) ==
    IF Len(GetCommands(j.Branch, CommandKindDeploy)) > 0
    THEN Passed(j)
    ELSE FALSE

(* Job.Started *)
Started(j, now) == [j EXCEPT !.TasksStarted = now]

DoneTasksOnly(j) == After(j.TasksFinished, ZeroTime)

(* Job.Done *)
Done(j) ==
    IF ShouldDeploy(j) /\ ~After(j.DeployFinished, ZeroTime)
    THEN FALSE
    ELSE IF ~After(j.TasksFinished, ZeroTime)
    THEN FALSE
    ELSE TRUE

IsRunningIgnoresDone(j) == After(j.TasksStarted, ZeroTime)

(* Job.IsRunning *)
IsRunning(j) ==
    IF After(j.TasksStarted, ZeroTime) /\ ~Done(j) THEN TRUE ELSE FALSE

(* Job.Cancel *)
Cancel(j) == [j EXCEPT !.Cancelled = TRUE]

---------------------------------------------------------------------------
(* callbacks/github.go: the webhook handler *)

(* strings.Split(s, "/") over a string given as its sequence of tokens,   *)
(* a token being "/" or a run of other characters                         *)
RECURSIVE Split(_)
Split(s) ==
    IF \A i \in DOMAIN s : s[i] # "/"
    THEN <<s>>
    ELSE LET k == CHOOSE i \in DOMAIN s :
                     s[i] = "/" /\ \A m \in 1..(i - 1) : s[m] # "/"
         IN <<SubSeq(s, 1, k - 1)>> \o Split(SubSeq(s, k + 1, Len(s)))

(* GitHubCallback.Branch: s[2] of the split ref, Go's index from 0 *)
BranchPanics(cb) == Len(Split(cb.Ref)) < 3
Branch(cb) == Split(cb.Ref)[3]

(* GitHubCallback.URL *)
URL(cb) == cb.Url

(* GitHubCallback.Commit *)
Commit(cb) == cb.HeadCommit

ShouldBuildAlways(cb) == TRUE

(* GitHubCallback.ShouldBuild *)
CallbackShouldBuild(cb) == IF cb.Deleted = TRUE THEN FALSE ELSE TRUE

ChanSendFront(q, r) == <<r>> \o q

(* jobs <- j: a send on the channel, which keeps the order of its sends *)
ChanSend(q, r) == Append(q, r)

(* the refs a push webhook carries *)
Refs == { <<"refs", "/", "heads", "/", "master">>,
          <<"refs", "/", "heads", "/", "dev">>,
          <<"refs", "/", "heads", "/", "feature", "/", "x">>,
          <<"master">> }

(* the GitHubCallback values json.Unmarshal leaves in cb; Err is its      *)
(* error: a body that is no JSON leaves the zero value, a body with one   *)
(* field of the wrong type leaves the other fields decoded                *)
Callbacks ==
    [Ref : Refs, Deleted : BOOLEAN, Url : {RegisteredURL, UnknownURL},
     HeadCommit : {"abc123"}, Err : {FALSE}]
    \cup
    [Ref : {<<>>}, Deleted : {FALSE}, Url : {""}, HeadCommit : {""},
     Err : {TRUE}]
    \cup
    [Ref : {<<"refs", "/", "heads", "/", "master">>}, Deleted : {FALSE},
     Url : {RegisteredURL}, HeadCommit : {"abc123"}, Err : {TRUE}]

NoCallback ==
    [Ref |-> <<>>, Deleted |-> FALSE, Url |-> "", HeadCommit |-> "",
     Err |-> FALSE]

(* the logging.Job parseGitHub builds; Origin names the delivery *)
Request(h, cb) ==
    [URL |-> URL(cb), Branch |-> Branch(cb), Commit |-> Commit(cb),
     Origin |-> h]

NoRequest == [URL |-> "", Branch |-> <<>>, Commit |-> "", Origin |-> 0]

---------------------------------------------------------------------------
(* the state after start-up, with n webhook deliveries still to arrive *)
InitWith(n) ==
    /\ jobs = <<>>
    /\ commandLogs = <<>>
    /\ queue = <<>>
    /\ hpc = [h \in 1..n |-> "idle"]
    /\ hcb = [h \in 1..n |-> NoCallback]
    /\ wpc = [w \in Workers |-> "idle"]
    /\ wjob = [w \in Workers |-> 0]
    /\ wmem = [w \in Workers |-> NoJob]
    /\ omem = NoJob
    /\ cancels = 0
    /\ wreq = [w \in Workers |-> NoRequest]
    /\ wcmd = [w \in Workers |-> 0]
    /\ wstop = [w \in Workers |-> FALSE]
    /\ enqueued = <<>>
    /\ dequeued = <<>>
    /\ dispatch = <<>>
    /\ registry = ConfigInitial

Init == InitWith(NumDeliveries)

(* log.Fatalln in a sink has ended the process: nothing runs any more *)
Exited == \E id \in DOMAIN dispatch : dispatch[id] = "fatal"

jobVars == <<jobs, commandLogs>>
handlerVars == <<hpc, hcb>>
workerVars == <<wpc, wjob, wmem, wreq, wcmd, wstop>>
operatorVars == <<omem, cancels>>
histVars == <<enqueued, dequeued>>

(* parseGitHub up to its channel send: unmarshal, build the logging.Job   *)
(* (cb.Branch() indexes the split ref), panic on the unmarshal error,     *)
(* then decide on cb.ShouldBuild(); payloads are the bodies delivered     *)
ParseGitHub(h, payloads) ==
    /\ ~Exited
    /\ hpc[h] = "idle"
    /\ \A g \in Deliveries : g < h => hpc[g] # "idle"
    /\ \E cb \in payloads :
          /\ hcb' = [hcb EXCEPT ![h] = cb]
          /\ hpc' = [hpc EXCEPT ![h] =
                IF BranchPanics(cb) \/ cb.Err THEN "panicked"
                ELSE IF CallbackShouldBuild(cb) = TRUE THEN "send"
                ELSE "notadded"]
    /\ UNCHANGED <<jobVars, queue, workerVars, operatorVars, histVars,
                   dispatch, registry>>

(* jobs <- j: blocks while the channel's buffer is full *)
SendJob(h) ==
    /\ ~Exited
    /\ hpc[h] = "send"
    /\ Len(queue) < QueueCap
    /\ queue' = ChanSend(queue, Request(h, hcb[h]))
    /\ enqueued' = Append(enqueued, h)
    /\ hpc' = [hpc EXCEPT ![h] = "done"]
    /\ UNCHANGED <<jobVars, hcb, workerVars, operatorVars, dequeued,
                   dispatch, registry>>

---------------------------------------------------------------------------
(* The notification sinks *)

(* hipchat: an error of http.Post is printed by log.Println and the call  *)
(* returns                                                                *)
Hipchat(postErr) == IF postErr THEN "logged" ELSE "sent"

(* PostPR: each of its error checks (after the repository lookup, after   *)
(* json.Marshal, after githubRequest) calls log.Fatalln, which prints     *)
(* and then ends the process with os.Exit(1)                              *)
PostPR(lookupErr, marshalErr, requestErr) ==
    IF lookupErr THEN "fatal"
    ELSE IF marshalErr THEN "fatal"
    ELSE IF requestErr THEN "fatal"
    ELSE "posted"

(* the fan-out over the sinks of one Job: the chat sink, then the         *)
(* pull-request sink when the push belongs to a pull request              *)
FanOut(postErr, linked, lookupErr, marshalErr, requestErr) ==
    IF linked /\ PostPR(lookupErr, marshalErr, requestErr) = "fatal"
    THEN "fatal"
    ELSE Hipchat(postErr)

(* the trigger of the dispatcher: a Job that reads Done() when its worker *)
(* releases it is handed over once; the worker does not wait              *)
Trigger(d, j) ==
    IF Done(j) /\ d[j.ID] = "none"
    THEN [d EXCEPT ![j.ID] = "spawned"]
    ELSE d

---------------------------------------------------------------------------
(* The worker loop *)

(* receive from the channel *)
Dequeue(w) ==
    /\ ~Exited
    /\ wpc[w] = "idle"
    /\ \A v \in Workers : v < w => wpc[v] # "idle"
    /\ queue # <<>>
    /\ wreq' = [wreq EXCEPT ![w] = Head(queue)]
    /\ queue' = Tail(queue)
    /\ dequeued' = Append(dequeued, Head(queue).Origin)
    /\ wpc' = [wpc EXCEPT ![w] = "resolve"]
    /\ UNCHANGED <<jobVars, handlerVars, wjob, wmem, wcmd, wstop,
                   operatorVars, enqueued, dispatch, registry>>

(* resolve the repository; CreateJob stores the new row and returns the   *)
(* *Job the worker holds from then on                                     *)
CreateJob(w) ==
    /\ ~Exited
    /\ wpc[w] = "resolve"
    /\ IF RepositoryForURL(wreq[w].URL)
       THEN LET j == NewJob(Len(jobs) + 1, wreq[w].Branch, wreq[w].Commit,
                            wreq[w].Origin)
            IN /\ jobs' = Append(jobs, j)
               /\ wmem' = [wmem EXCEPT ![w] = j]
               /\ commandLogs' = Append(commandLogs, <<>>)
               /\ dispatch' = Append(dispatch, "none")
               /\ wjob' = [wjob EXCEPT ![w] = j.ID]
               /\ wpc' = [wpc EXCEPT ![w] = "created"]
       ELSE /\ wpc' = [wpc EXCEPT ![w] = "idle"]
            /\ UNCHANGED <<jobs, commandLogs, dispatch, wjob, wmem>>
    /\ wreq' = [wreq EXCEPT ![w] = NoRequest]
    /\ UNCHANGED <<queue, handlerVars, wcmd, wstop, operatorVars, histVars,
                   registry>>

(* a Job without build commands is not run; otherwise job.Started() *)
StartJob(w) ==
    /\ ~Exited
    /\ wpc[w] = "created"
    /\ IF ShouldBuild(wmem[w])
       THEN /\ \E now \in TimeNow :
                  /\ wmem' = [wmem EXCEPT ![w] = Started(@, now)]
                  /\ jobs' = Save(jobs, Started(wmem[w], now))
            /\ wpc' = [wpc EXCEPT ![w] = "build"]
            /\ wcmd' = [wcmd EXCEPT ![w] = 1]
            /\ UNCHANGED wjob
       ELSE /\ wpc' = [wpc EXCEPT ![w] = "idle"]
            /\ wjob' = [wjob EXCEPT ![w] = 0]
            /\ wmem' = [wmem EXCEPT ![w] = NoJob]
            /\ UNCHANGED <<jobs, wcmd>>
    /\ UNCHANGED <<commandLogs, queue, handlerVars, wreq, wstop,
                   operatorVars, histVars, dispatch, registry>>

(* one pass of a stage's loop: read the cancelled flag of the stored row, *)
(* then run the next command to completion and record its CommandLog;     *)
(* the stage ends on the flag, on a failing command, or after the last    *)
(* command                                                                *)
RunCommand(w, kind, stage, stageEnd) ==
    /\ ~Exited
    /\ wpc[w] = stage
    /\ LET j == wmem[w]
           cmds == GetCommands(j.Branch, kind)
       IN IF GetJob(j.ID).Cancelled
          THEN /\ wstop' = [wstop EXCEPT ![w] = TRUE]
               /\ wpc' = [wpc EXCEPT ![w] = stageEnd]
               /\ UNCHANGED <<commandLogs, wcmd>>
          ELSE IF wcmd[w] > Len(cmds)
          THEN /\ wpc' = [wpc EXCEPT ![w] = stageEnd]
               /\ UNCHANGED <<commandLogs, wcmd, wstop>>
          ELSE \E passed \in BOOLEAN :
               /\ commandLogs' = CreateCommandLog(commandLogs, j.ID, kind,
                                                   cmds[wcmd[w]], passed)
               /\ IF passed
                  THEN /\ wcmd' = [wcmd EXCEPT ![w] = @ + 1]
                       /\ UNCHANGED wpc
                  ELSE /\ wpc' = [wpc EXCEPT ![w] = stageEnd]
                       /\ UNCHANGED wcmd
               /\ UNCHANGED wstop
    /\ UNCHANGED <<jobs, queue, handlerVars, wjob, wmem, wreq, operatorVars,
                   histVars, dispatch, registry>>

RunBuild(w) == RunCommand(w, CommandKindBuild, "build", "buildend")

(* job.TasksDone() once the build stage has ended *)
FinishBuild(w) ==
    /\ ~Exited
    /\ wpc[w] = "buildend"
    /\ \E now \in TimeNow :
          /\ wmem' = [wmem EXCEPT ![w] = TasksDone(@, now)]
          /\ jobs' = Save(jobs, TasksDone(wmem[w], now))
    /\ wpc' = [wpc EXCEPT ![w] = "afterbuild"]
    /\ UNCHANGED <<commandLogs, queue, handlerVars, wjob, wreq, wcmd, wstop,
                   operatorVars, histVars, dispatch, registry>>

(* after the build stage: enter the deploy stage when the job             *)
(* ShouldDeploy() and the worker has not seen the flag, otherwise release *)
(* the Job and hand its outcome to the dispatcher                         *)
EnterDeploy(w) ==
    /\ ~Exited
    /\ wpc[w] = "afterbuild"
    /\ IF ~wstop[w] /\ ShouldDeploy(wmem[w])
       THEN /\ wpc' = [wpc EXCEPT ![w] = "deploy"]
            /\ wcmd' = [wcmd EXCEPT ![w] = 1]
            /\ UNCHANGED <<wjob, wmem, wstop, dispatch>>
       ELSE /\ wpc' = [wpc EXCEPT ![w] = "idle"]
            /\ wjob' = [wjob EXCEPT ![w] = 0]
            /\ wmem' = [wmem EXCEPT ![w] = NoJob]
            /\ wcmd' = [wcmd EXCEPT ![w] = 0]
            /\ wstop' = [wstop EXCEPT ![w] = FALSE]
            /\ dispatch' = Trigger(dispatch, wmem[w])
    /\ UNCHANGED <<jobVars, queue, handlerVars, wreq, operatorVars,
                   histVars, registry>>

RunDeploy(w) == RunCommand(w, CommandKindDeploy, "deploy", "deployend")

(* job.DeployDone() once the deploy stage has ended *)
FinishDeploy(w) ==
    /\ ~Exited
    /\ wpc[w] = "deployend"
    /\ \E now \in TimeNow :
          /\ jobs' = Save(jobs, DeployDone(wmem[w], now))
          /\ dispatch' = Trigger(dispatch, DeployDone(wmem[w], now))
    /\ wpc' = [wpc EXCEPT ![w] = "idle"]
    /\ wjob' = [wjob EXCEPT ![w] = 0]
    /\ wmem' = [wmem EXCEPT ![w] = NoJob]
    /\ wcmd' = [wcmd EXCEPT ![w] = 0]
    /\ wstop' = [wstop EXCEPT ![w] = FALSE]
    /\ UNCHANGED <<commandLogs, queue, handlerVars, wreq, operatorVars,
                   histVars, registry>>

(* the operator opens a Job: GetJob(id) fills a struct from the row *)
LoadJob(id) ==
    /\ ~Exited
    /\ id \in DOMAIN jobs
    /\ omem = NoJob
    /\ cancels < MaxCancels
    /\ omem' = GetJob(id)
    /\ UNCHANGED <<jobVars, queue, handlerVars, workerVars, cancels,
                   histVars, dispatch, registry>>

(* the operator's cancel action: job.Cancel() on the struct loaded        *)
(* earlier, whatever the row has become since                             *)
CancelJob(id) ==
    /\ ~Exited
    /\ omem # NoJob
    /\ omem.ID = id
    /\ jobs' = Save(jobs, Cancel(omem))
    /\ omem' = NoJob
    /\ cancels' = cancels + 1
    /\ UNCHANGED <<commandLogs, queue, handlerVars, workerVars, histVars,
                   dispatch, registry>>

(* the dispatcher, off the worker loop: fan the outcome of Job id out to  *)
(* its sinks, any of which may fail                                       *)
Notify(id) ==
    /\ ~Exited
    /\ id \in DOMAIN dispatch
    /\ dispatch[id] = "spawned"
    /\ \E postErr, linked, lookupErr, marshalErr, requestErr \in BOOLEAN :
          dispatch' = [dispatch EXCEPT ![id] =
              FanOut(postErr, linked, lookupErr, marshalErr, requestErr)]
    /\ UNCHANGED <<jobVars, queue, handlerVars, workerVars, operatorVars,
                   histVars, registry>>

Next ==
    \/ \E h \in Deliveries : ParseGitHub(h, Callbacks)
    \/ \E h \in Deliveries : SendJob(h)
    \/ \E w \in Workers : Dequeue(w)
    \/ \E w \in Workers : CreateJob(w)
    \/ \E w \in Workers : StartJob(w)
    \/ \E w \in Workers : RunBuild(w)
    \/ \E w \in Workers : FinishBuild(w)
    \/ \E w \in Workers : EnterDeploy(w)
    \/ \E w \in Workers : RunDeploy(w)
    \/ \E w \in Workers : FinishDeploy(w)
    \/ \E id \in DOMAIN jobs : LoadJob(id)
    \/ \E id \in DOMAIN jobs : CancelJob(id)
    \/ \E id \in DOMAIN dispatch : Notify(id)

Spec == Init /\ [][Next]_vars

(* every goroutine that can take its next step is scheduled: a handler    *)
(* at its channel send, a worker in its loop, the dispatch of a Job       *)
WorkerStep(w) ==
    \/ Dequeue(w) \/ CreateJob(w) \/ StartJob(w) \/ RunBuild(w)
    \/ FinishBuild(w) \/ EnterDeploy(w) \/ RunDeploy(w) \/ FinishDeploy(w)

Fairness ==
    /\ \A h \in 1..NumDeliveries : WF_vars(SendJob(h))
    /\ \A w \in Workers : WF_vars(WorkerStep(w))
    /\ \A id \in 1..NumDeliveries : WF_vars(Notify(id))

SpecFair == Spec /\ Fairness

---------------------------------------------------------------------------
(* The admission scenario: more deliveries than the channel holds, all    *)
(* for the registered repository, pushes and deletions of a branch with   *)
(* a build command and of a branch without commands.  No branch delivered *)
(* has deploy commands and no operator acts.                              *)

QueueCallbacks ==
    [Ref : {<<"refs", "/", "heads", "/", "dev">>,
            <<"refs", "/", "heads", "/", "feature", "/", "x">>},
     Deleted : BOOLEAN, Url : {RegisteredURL}, HeadCommit : {"abc123"},
     Err : {FALSE}]

InitQueue == InitWith(NumAdmissions)

NextQueue ==
    \/ \E h \in Deliveries : ParseGitHub(h, QueueCallbacks)
    \/ \E h \in Deliveries : SendJob(h)
    \/ \E w \in Workers : Dequeue(w)
    \/ \E w \in Workers : CreateJob(w)
    \/ \E w \in Workers : StartJob(w)
    \/ \E w \in Workers : RunBuild(w)
    \/ \E w \in Workers : FinishBuild(w)
    \/ \E w \in Workers : EnterDeploy(w)
    \/ \E id \in DOMAIN dispatch : Notify(id)

SpecQueue == InitQueue /\ [][NextQueue]_vars

---------------------------------------------------------------------------
(* A caller of package database that creates one Job and calls its        *)
(* exported methods in any order, the way TestCGDoneJob calls             *)
(* CreateJob, TasksDone and DeployDone on a repository without commands.  *)
(* It is the only holder of the Job, so the struct it holds and the row   *)
(* agree after every db.Save.                                             *)

ApiCreateJob(branch) ==
    /\ jobs = <<>>
    /\ jobs' = <<NewJob(1, branch, "commit", 0)>>
    /\ commandLogs' = <<<<>>>>
    /\ dispatch' = <<"none">>
    /\ UNCHANGED <<queue, handlerVars, workerVars, operatorVars, histVars,
                   registry>>

ApiCall(id, after) ==
    /\ id \in DOMAIN jobs
    /\ jobs' = Save(jobs, after)
    /\ UNCHANGED <<commandLogs, queue, handlerVars, workerVars,
                   operatorVars, histVars, dispatch, registry>>

ApiStarted(id) ==
    /\ id \in DOMAIN jobs
    /\ \E now \in TimeNow : ApiCall(id, Started(jobs[id], now))

ApiTasksDone(id) ==
    /\ id \in DOMAIN jobs
    /\ \E now \in TimeNow : ApiCall(id, TasksDone(jobs[id], now))

ApiDeployDone(id) ==
    /\ id \in DOMAIN jobs
    /\ \E now \in TimeNow : ApiCall(id, DeployDone(jobs[id], now))

ApiCancel(id) ==
    /\ id \in DOMAIN jobs
    /\ ~jobs[id].Cancelled
    /\ ApiCall(id, Cancel(jobs[id]))

ApiCreateCommandLog(id, kind, passed) ==
    /\ id \in DOMAIN jobs
    /\ Len(commandLogs[id]) < MaxApiLogs
    /\ commandLogs' = CreateCommandLog(commandLogs, id, kind, "cmd", passed)
    /\ UNCHANGED <<jobs, queue, handlerVars, workerVars, operatorVars,
                   histVars, dispatch, registry>>

(* an edit of the repository's commands while the Job exists *)
ApiChangeConfig ==
    /\ jobs # <<>>
    /\ registry' = IF registry = ConfigInitial THEN ConfigEdited
                   ELSE ConfigInitial
    /\ UNCHANGED <<jobVars, queue, handlerVars, workerVars, operatorVars,
                   histVars, dispatch>>

NextAPI ==
    \/ \E b \in Branches : ApiCreateJob(b)
    \/ ApiStarted(1)
    \/ ApiTasksDone(1)
    \/ ApiDeployDone(1)
    \/ ApiCancel(1)
    \/ \E k \in {CommandKindBuild, CommandKindDeploy}, p \in BOOLEAN :
          ApiCreateCommandLog(1, k, p)
    \/ ApiChangeConfig

SpecAPI == Init /\ [][NextAPI]_vars

---------------------------------------------------------------------------
(* Vocabulary of the properties, read off the tables directly *)

JobIds == DOMAIN jobs

Unset(t) == t = 0
IsSet(t) == t # 0

(* the CommandLog rows of Job id, and those of one kind *)
LogsOf(id) == commandLogs[id]
LogsOfKind(id, kind) == SelectSeq(commandLogs[id], LAMBDA c : c.Kind = kind)

AllLogsPass(id) == \A i \in DOMAIN LogsOf(id) : LogsOf(id)[i].Passed = TRUE
SomeLogFails(id) == \E i \in DOMAIN LogsOf(id) : LogsOf(id)[i].Passed = FALSE
BuildLogsPass(id) ==
    \A i \in DOMAIN LogsOf(id) :
        LogsOf(id)[i].Kind = "build" => LogsOf(id)[i].Passed = TRUE
SomeBuildLogFails(id) == ~BuildLogsPass(id)

NumDeployCommands(id) == Len(GetCommands(jobs[id].Branch, "deploy"))
NumBuildCommands(id) == Len(GetCommands(jobs[id].Branch, "build"))

---------------------------------------------------------------------------
(* C1: for every Job, Status() is "pending" exactly when tasksFinished is *)
(* unset; once it is set, Status() is "success" exactly when every        *)
(* CommandLog of the Job, build or deploy, passed, and "error" otherwise. *)
C1_StatusDerived ==
    \A id \in JobIds :
        /\ Status(jobs[id]) = "pending" <=> Unset(jobs[id].TasksFinished)
        /\ IsSet(jobs[id].TasksFinished) =>
              /\ Status(jobs[id]) = "success" <=> AllLogsPass(id)
              /\ Status(jobs[id]) = "error" <=> SomeLogFails(id)

(* a finished Job with two CommandLogs, the build one passing and the     *)
(* deploy one failing, reads "error" *)
C1_Witness ==
    \E id \in JobIds :
        /\ IsSet(jobs[id].TasksFinished)
        /\ Len(LogsOf(id)) = 2
        /\ LogsOf(id)[1].Kind = "build" /\ LogsOf(id)[1].Passed
        /\ LogsOf(id)[2].Kind = "deploy" /\ ~LogsOf(id)[2].Passed
        /\ Status(jobs[id]) = "error"

(* C2 as stated: no Job is IsRunning() while its Status() is "success".   *)
C2_NeverRunningAndSuccess ==
    \A id \in JobIds :
        ~(IsRunning(jobs[id]) /\ Status(jobs[id]) = "success")

(* C2 as amended: a Job is IsRunning() with Status() "success" only in    *)
(* the deploy window (tasksStarted and tasksFinished set, every           *)
(* CommandLog passing, deploy commands configured, deployFinished unset), *)
(* and no Job that is Done() is IsRunning().                              *)
C2_RunningSuccessOnlyBeforeDeploy ==
    \A id \in JobIds :
        /\ IsRunning(jobs[id]) /\ Status(jobs[id]) = "success" =>
              /\ IsSet(jobs[id].TasksStarted)
              /\ IsSet(jobs[id].TasksFinished)
              /\ AllLogsPass(id)
              /\ NumDeployCommands(id) > 0
              /\ Unset(jobs[id].DeployFinished)
        /\ Done(jobs[id]) => ~IsRunning(jobs[id])

(* a started Job on a branch with deploy commands whose build stage       *)
(* passed and whose deploy has not finished: running and successful       *)
C2_Witness ==
    \E id \in JobIds :
        /\ NumDeployCommands(id) > 0
        /\ IsSet(jobs[id].TasksStarted)
        /\ IsSet(jobs[id].TasksFinished)
        /\ Unset(jobs[id].DeployFinished)
        /\ Len(LogsOf(id)) >= 1
        /\ IsRunning(jobs[id])
        /\ Status(jobs[id]) = "success"

(* C3 as stated: Done() iff tasksFinished is set and (ShouldDeploy() is   *)
(* false or deployFinished is set), where ShouldDeploy() is true exactly  *)
(* when a deploy command is configured and the build stage passed.        *)
C3_DoneWithBuildStagePassed ==
    \A id \in JobIds :
        /\ ShouldDeploy(jobs[id]) <=>
              (NumDeployCommands(id) > 0 /\ BuildLogsPass(id))
        /\ Done(jobs[id]) <=>
              /\ IsSet(jobs[id].TasksFinished)
              /\ \/ ~(NumDeployCommands(id) > 0 /\ BuildLogsPass(id))
                 \/ IsSet(jobs[id].DeployFinished)

(* C3 as amended: the same equivalence, with ShouldDeploy() true exactly  *)
(* when a deploy command is configured and every CommandLog recorded so   *)
(* far for the Job, build and deploy alike, passed.                       *)
C3_DoneWithAllLogsPassed ==
    \A id \in JobIds :
        /\ ShouldDeploy(jobs[id]) <=>
              (NumDeployCommands(id) > 0 /\ AllLogsPass(id))
        /\ Done(jobs[id]) <=>
              /\ IsSet(jobs[id].TasksFinished)
              /\ \/ ~(NumDeployCommands(id) > 0 /\ AllLogsPass(id))
                 \/ IsSet(jobs[id].DeployFinished)

(* deploy commands configured, build log passing, a deploy log failing,   *)
(* deployFinished unset: ShouldDeploy() is false and Done() is true       *)
C3_Witness ==
    \E id \in JobIds :
        /\ NumDeployCommands(id) > 0
        /\ IsSet(jobs[id].TasksFinished)
        /\ Unset(jobs[id].DeployFinished)
        /\ BuildLogsPass(id) /\ SomeLogFails(id)
        /\ ~ShouldDeploy(jobs[id])
        /\ Done(jobs[id])

---------------------------------------------------------------------------
(* The worker that owns Job id, if any, and whether one still does *)
Owners(id) == {w \in Workers : wjob[w] = id}
Released(id) == Owners(id) = {}

(* the names of a sequence of CommandLogs, in order *)
Names(logs) == [i \in DOMAIN logs |-> logs[i].Name]

(* logs record a fail-fast run of cmds: the commands in declared order    *)
(* from the first on, every command before the last recorded one passing  *)
FailFastRun(logs, cmds) ==
    /\ Len(logs) <= Len(cmds)
    /\ Names(logs) = SubSeq(cmds, 1, Len(logs))
    /\ \A i \in 1..(Len(logs) - 1) : logs[i].Passed = TRUE

(* C4: a Job whose build stage failed never gets a deploy CommandLog and  *)
(* its deployFinished stays unset.                                        *)
C4_NoDeployAfterFailedBuild ==
    \A id \in JobIds :
        SomeBuildLogFails(id) =>
            /\ LogsOfKind(id, "deploy") = <<>>
            /\ Unset(jobs[id].DeployFinished)

(* a Job on a branch with deploy commands whose build failed has been     *)
(* finished and released by its worker, with nothing deployed             *)
C4_Witness ==
    \E id \in JobIds :
        /\ NumDeployCommands(id) > 0
        /\ SomeBuildLogFails(id)
        /\ IsSet(jobs[id].TasksFinished)
        /\ Released(id)
        /\ Unset(jobs[id].DeployFinished)

(* C5: within a stage the commands run in declared order and the stage    *)
(* stops at the first failing command; once a build command has failed    *)
(* no further CommandLog is appended and the worker's next step sets      *)
(* tasksFinished (for [A, B, C] with A failing: one CommandLog, for A).   *)
C5_FailFast ==
    /\ [](\A id \in JobIds :
            LET build == LogsOfKind(id, "build")
                deploy == LogsOfKind(id, "deploy")
            IN /\ LogsOf(id) = build \o deploy
               /\ FailFastRun(build, GetCommands(jobs[id].Branch, "build"))
               /\ FailFastRun(deploy, GetCommands(jobs[id].Branch, "deploy"))
               /\ SomeBuildLogFails(id) =>
                     /\ LogsOf(id) = build
                     /\ \A w \in Owners(id) :
                           wpc[w] \in {"buildend", "afterbuild"})
    /\ [][\A id \in JobIds : \A w \in Owners(id) :
             (/\ SomeBuildLogFails(id)
              /\ wpc[w] = "buildend"
              /\ wpc'[w] # "buildend") =>
                 /\ IsSet(jobs'[id].TasksFinished)
                 /\ LogsOf(id)' = LogsOf(id)]_vars

(* build pipeline [A, B, C], A failed: exactly one CommandLog, for A, and *)
(* tasksFinished set *)
C5_Witness ==
    \E id \in JobIds :
        /\ GetCommands(jobs[id].Branch, "build") = <<"A", "B", "C">>
        /\ Len(LogsOf(id)) = 1
        /\ LogsOf(id)[1].Name = "A" /\ ~LogsOf(id)[1].Passed
        /\ IsSet(jobs[id].TasksFinished)
        /\ Released(id)

(* C6: a delivery whose payload marks a branch deletion has ShouldBuild() *)
(* false, puts nothing on the queue and leads to no Job.                  *)
C6_DeletionNeverBuilt ==
    \A h \in Deliveries :
        (hpc[h] # "idle" /\ hcb[h].Deleted = TRUE) =>
            /\ hpc[h] \in {"notadded", "panicked"}
            /\ \A i \in DOMAIN queue : queue[i].Origin # h
            /\ \A i \in DOMAIN enqueued : enqueued[i] # h
            /\ \A w \in Workers : wreq[w].Origin # h
            /\ \A id \in JobIds : jobs[id].Origin # h

(* a deletion of a configured branch of the registered repository was     *)
(* handled and not added, while another delivery has become a Job         *)
C6_Witness ==
    \E h \in Deliveries :
        /\ hcb[h].Deleted = TRUE
        /\ hcb[h].Url = RegisteredURL
        /\ hcb[h].Ref = <<"refs", "/", "heads", "/", "master">>
        /\ hpc[h] = "notadded"
        /\ JobIds # {}

(* C7 as stated, in the form a finished run decides: a cancelled Job that *)
(* was started and that its worker has released reads as terminal:        *)
(* tasksFinished set, Done() true, IsRunning() false.                     *)
C7_CancelledReadsTerminal ==
    \A id \in JobIds :
        (/\ jobs[id].Cancelled
         /\ IsSet(jobs[id].TasksStarted)
         /\ Released(id)) =>
            /\ IsSet(jobs[id].TasksFinished)
            /\ Done(jobs[id])
            /\ ~IsRunning(jobs[id])

(* the build stage of Job id has ended: its worker saw the cancelled      *)
(* flag, or the last build command run failed, or every build command     *)
(* has a CommandLog                                                       *)
BuildStageEnded(id) ==
    LET build == LogsOfKind(id, "build")
    IN \/ \E w \in Owners(id) : wstop[w]
       \/ build # <<>> /\ ~build[Len(build)].Passed
       \/ Len(build) = NumBuildCommands(id)

(* C8: tasksFinished, once set, is never written again, and it is set     *)
(* only when the build stage has ended.                                   *)
C8_TasksFinishedSetOnce ==
    [][\A id \in JobIds :
          /\ IsSet(jobs[id].TasksFinished) =>
                jobs'[id].TasksFinished = jobs[id].TasksFinished
          /\ (Unset(jobs[id].TasksFinished)
              /\ IsSet(jobs'[id].TasksFinished)) => BuildStageEnded(id)]_vars

(* C9: a Job whose branch has no deploy commands has ShouldDeploy() false *)
(* and deployFinished unset in every state, also after its build stage    *)
(* passed and tasksFinished is set.                                       *)
C9_NoDeployCommandsNeverDeployed ==
    \A id \in JobIds :
        NumDeployCommands(id) = 0 =>
            /\ ~ShouldDeploy(jobs[id])
            /\ Unset(jobs[id].DeployFinished)

(* C10: the queue never holds more than its capacity; every request     *)
(* that was to be built is sent exactly once and is then on the queue or  *)
(* was received by a worker; workers receive the requests in the order    *)
(* they were sent; and a handler that finds the queue full stays at its   *)
(* send, its request neither sent nor dropped.                            *)
QueueOrigins == [i \in DOMAIN queue |-> queue[i].Origin]

C10_AdmissionKeepsAllInOrder ==
    /\ [](/\ Len(queue) <= QueueCap
          /\ enqueued = dequeued \o QueueOrigins
          /\ \A i, k \in DOMAIN enqueued : enqueued[i] = enqueued[k] => i = k
          /\ \A h \in Deliveries :
                /\ hpc[h] = "done" <=>
                      \E i \in DOMAIN enqueued : enqueued[i] = h
                /\ (/\ hpc[h] # "idle"
                    /\ ~hcb[h].Err
                    /\ Len(Split(hcb[h].Ref)) >= 3
                    /\ hcb[h].Deleted = FALSE) => hpc[h] \in {"send", "done"})
    /\ [][\A h \in Deliveries :
             (hpc[h] = "send" /\ Len(queue) = QueueCap) =>
                 /\ hpc'[h] = "send"
                 /\ \A i \in DOMAIN enqueued' : enqueued'[i] # h]_vars

(* the queue is full with the requests of two deliveries, sent in the     *)
(* reverse of their arrival, while a third handler waits at its send      *)
C10_Witness ==
    /\ Len(queue) = QueueCap
    /\ queue[1].Origin > queue[2].Origin
    /\ \E h \in Deliveries :
          /\ hpc[h] = "send"
          /\ \A i \in DOMAIN queue : queue[i].Origin # h

(* C11: two requests for the same commit give two Jobs with different     *)
(* IDs, one per request; a Job is owned by at most one worker; every      *)
(* CommandLog row is stored for exactly the Job whose ID it carries;      *)
(* Passed() and Status() of a Job are decided by its own rows alone; and  *)
(* every Job reaches a terminal state: from some point on its Status() is *)
(* "success" or "error" (stated for the Jobs that have something to run,  *)
(* those on a branch with build commands).                                *)
C11_SameCommitJobsIndependent ==
    /\ [](\A id \in JobIds :
            /\ jobs[id].ID = id
            /\ \A k \in JobIds :
                  k # id => /\ jobs[k].ID # jobs[id].ID
                            /\ jobs[k].Origin # jobs[id].Origin
            /\ Cardinality(Owners(id)) <= 1
            /\ \A i \in DOMAIN LogsOf(id) : LogsOf(id)[i].JobID = jobs[id].ID
            /\ Passed(jobs[id]) <=> AllLogsPass(id)
            /\ Status(jobs[id]) =
                  (IF Unset(jobs[id].TasksFinished) THEN "pending"
                   ELSE IF AllLogsPass(id) THEN "success" ELSE "error"))
    /\ \A id \in 1..NumDeliveries :
          <>[]((id \in JobIds /\ NumBuildCommands(id) > 0) =>
                   Status(jobs[id]) \in {"success", "error"})

(* C12: a request whose URL matches no configured repository is dropped   *)
(* before admission: its handler never comes to the channel send, it is   *)
(* never on the queue nor received by a worker, and no Job is created     *)
(* for it.                                                                *)
C12_UnknownURLNeverQueued ==
    \A h \in Deliveries :
        (/\ hpc[h] # "idle"
         /\ ~hcb[h].Err
         /\ ~RepositoryForURL(URL(hcb[h]))) =>
            /\ hpc[h] \notin {"send", "done"}
            /\ \A i \in DOMAIN queue : queue[i].Origin # h
            /\ \A i \in DOMAIN enqueued : enqueued[i] # h
            /\ \A w \in Workers : wreq[w].Origin # h
            /\ \A id \in JobIds : jobs[id].Origin # h

(* C13: a webhook body that does not parse is logged and dropped: its     *)
(* handler returns normally without a channel send (it does not panic),   *)
(* and its request is never on the queue nor received by a worker.        *)
C13_MalformedBodyDropped ==
    \A h \in Deliveries :
        (hpc[h] # "idle" /\ hcb[h].Err) =>
            /\ hpc[h] = "notadded"
            /\ \A i \in DOMAIN queue : queue[i].Origin # h
            /\ \A i \in DOMAIN enqueued : enqueued[i] # h
            /\ \A id \in JobIds : jobs[id].Origin # h

(* C14: a failure of a notification sink, chat or pull request, is only   *)
(* logged: the dispatch of every Job ends with its message sent or its    *)
(* failure logged, and never ends the process.                            *)
C14_SinkFailureOnlyLogged ==
    \A id \in DOMAIN dispatch :
        dispatch[id] \in {"none", "spawned", "sent", "logged"}

(* C15: the notification of a Job's outcome is dispatched once the Job    *)
(* reads Done(): every Job that is Done() eventually has had its fan-out  *)
(* to the sinks performed.                                                *)
C15_DoneJobEventuallyDispatched ==
    \A id \in 1..NumDeliveries :
        (id \in JobIds /\ Done(jobs[id]))
            ~> (id \in JobIds /\ dispatch[id] \in {"sent", "logged", "fatal"})

(* C16: for every ref of a parsed push the handler yields a branch, and   *)
(* the branch is the final segment of the ref split at "/", for refs of   *)
(* three segments, of more and of fewer.                                  *)
C16_BranchIsFinalSegment ==
    \A h \in Deliveries :
        (hpc[h] # "idle" /\ ~hcb[h].Err) =>
            LET segs == Split(hcb[h].Ref)
            IN /\ hpc[h] # "panicked"
               /\ ~BranchPanics(hcb[h])
               /\ Branch(hcb[h]) = segs[Len(segs)]

(* C17: a step that sets Cancelled on a Job changes nothing else of it:   *)
(* its other fields and its CommandLogs are the same, so Status(), Done() *)
(* and Passed() read the same before and after; and no step resets        *)
(* Cancelled once it is true.                                             *)
C17_CancelChangesOnlyCancelled ==
    [][\A id \in JobIds :
          /\ jobs[id].Cancelled => jobs'[id].Cancelled
          /\ (~jobs[id].Cancelled /\ jobs'[id].Cancelled) =>
                /\ jobs'[id] = [jobs[id] EXCEPT !.Cancelled = TRUE]
                /\ commandLogs'[id] = commandLogs[id]
                /\ Status(jobs[id])' = Status(jobs[id])
                /\ Done(jobs[id])' = Done(jobs[id])
                /\ Passed(jobs[id])' = Passed(jobs[id])]_vars

(* C18: the timestamps of a Job are set in order: deployFinished is set   *)
(* only when tasksFinished is, and tasksFinished only when tasksStarted   *)
(* is; so a Job whose tasksStarted is unset reads "pending" and not       *)
(* Done().                                                                *)
C18_TimestampsSetInOrder ==
    \A id \in JobIds :
        /\ IsSet(jobs[id].DeployFinished) => IsSet(jobs[id].TasksFinished)
        /\ IsSet(jobs[id].TasksFinished) => IsSet(jobs[id].TasksStarted)
        /\ Unset(jobs[id].TasksStarted) =>
              /\ Status(jobs[id]) = "pending"
              /\ ~Done(jobs[id])

(* C19: Done() is stable: no step (a CommandLog append, TasksDone(),      *)
(* DeployDone(), Cancel(), an edit of the configured deploy commands)     *)
(* takes a Job that reads Done() to a state where it does not.            *)
C19_DoneStable ==
    [][\A id \in JobIds : Done(jobs[id]) => Done(jobs[id])']_vars

(* C20: Status() only moves forward: no step takes a Job from "success"   *)
(* or "error" back to "pending", nor from "error" to "success"; the       *)
(* changes left are pending to success, pending to error and success to   *)
(* error.                                                                 *)
C20_StatusMovesForward ==
    [][\A id \in JobIds :
          /\ Status(jobs[id]) # "pending" => Status(jobs[id])' # "pending"
          /\ Status(jobs[id]) = "error" => Status(jobs[id])' = "error"]_vars

====
